---- MODULE Spec2Model ----
(***************************************************************************)
(* The remove-watermark pipeline of the web backend: token verification,   *)
(* upload, validation, external tool execution, response and deferred      *)
(* cleanup (web/backend/src).                                              *)
(*                                                                         *)
(* Strings of the program are modelled as sequences of tokens: a filename  *)
(* is a sequence over NameTokens, where "." is the dot character and every *)
(* other token is a dot-free, separator-free run of characters.  A message *)
(* is a sequence of text fragments.  Base64 text is a sequence of sextet   *)
(* values 0..63, with 64 standing for the padding character "=".           *)
(***************************************************************************)
EXTENDS Integers, Sequences, FiniteSets, TLC

(***************************************************************************)
(* Bounds of the model.                                                    *)
(***************************************************************************)
MaxNameLen == 3
SizeSlack == 1
MaxExitCode == 1
MaxClock == 2

(***************************************************************************)
(* Settings (core/config.py).                                              *)
(***************************************************************************)
max_file_size_mb == 10
binary_timeout_seconds == 30
ephemeral_retention_hours == 1
allowed_extensions == {<<"png">>, <<"jpg">>, <<"jpeg">>, <<"webp">>}
AppEnvs == {"development", "production"}

MaxSizeBytes == max_file_size_mb * 1024 * 1024

(***************************************************************************)
(* Inputs.                                                                 *)
(***************************************************************************)
Requests == {1}
NameTokens == {"a", ".", "png", "PNG", "gif"}
RECURSIVE SeqsUpTo(_, _)
SeqsUpTo(S, n) ==
    IF n = 0 THEN {<<>>}
    ELSE LET shorter == SeqsUpTo(S, n - 1)
         IN  shorter \cup {Append(s, x) : s \in {t \in shorter : Len(t) = n - 1}, x \in S}
FileNames == SeqsUpTo(NameTokens, MaxNameLen)
FileSizes == (MaxSizeBytes - SizeSlack)..(MaxSizeBytes + SizeSlack)
\* what the uploaded bytes are: an image in one of these encodings, or an executable
ContentKinds == {"PNG", "GIF", "EXE"}
\* the encodings PIL identifies
ImageKinds == {"PNG", "JPEG", "GIF", "WEBP", "BMP"}
Dimensions == {1024, 1025}
ExitCodes == {-9} \cup (0..MaxExitCode)
\* bytes captured from the pipes: "o" and "e" are valid UTF-8 bytes, "xFF" is not
StreamSamples == {[stdout |-> <<>>, stderr |-> <<>>], [stdout |-> <<"o">>, stderr |-> <<"e", "xFF">>]}
\* bytes of an output file
OutputSamples == {<<>>, <<77>>, <<77, 97>>, <<77, 97, 110>>}
DurationSamples == {binary_timeout_seconds - 1, binary_timeout_seconds, binary_timeout_seconds + 1}
\* provider error-code lists
ErrorCodeSamples == {<<>>, <<"invalid-input-response">>, <<"unknown-code">>,
                     <<"unknown-code", "timeout-or-duplicate">>,
                     <<"bad-request", "missing-input-response">>}

(***************************************************************************)
(* Exceptions (core/exceptions.py).  str(e) of an AppException is its      *)
(* message.                                                                *)
(***************************************************************************)
NoDetails == [none |-> TRUE]
NoError == [type |-> "none", message |-> <<>>, status_code |-> 0, details |-> NoDetails]

AppException(type, message, status_code, details) ==
    [type |-> type, message |-> message, status_code |-> status_code, details |-> details]

ValidationError(message, details) == AppException("ValidationError", message, 400, details)

TurnstileError(message, details) == AppException("TurnstileError", message, 403, details)

ProcessingError(message, details) == AppException("ProcessingError", message, 500, details)

BinaryExecutionError(message, details) == AppException("BinaryExecutionError", message, 500, details)

NotFoundError(message, details) == AppException("FileNotFoundError", message, 404, details)

\* an exception that is not an AppException (OSError and its subclasses, ...)
BuiltinError(type, text) == [type |-> type, message |-> <<text>>, status_code |-> 0, details |-> NoDetails]

IsAppException(e) ==
    e.type \in {"ValidationError", "TurnstileError", "ProcessingError",
                "BinaryExecutionError", "FileNotFoundError"}

(***************************************************************************)
(* pathlib / mimetypes, on token sequences.                                *)
(***************************************************************************)
\* position of the last "." of a name, 0 when there is none (str.rfind)
RFindDot(name) ==
    LET dots == {i \in 1..Len(name) : name[i] = "."}
    IN  IF dots = {} THEN 0 ELSE CHOOSE i \in dots : \A j \in dots : j <= i

\* PurePath.suffix: the last dot and what follows it, unless that dot is the
\* first or the last character of the name
Suffix(name) ==
    LET i == RFindDot(name)
    IN  IF 1 < i /\ i < Len(name) THEN SubSeq(name, i, Len(name)) ELSE <<>>

LowerToken(t) == IF t = "PNG" THEN "png" ELSE t

RECURSIVE Lower(_)
Lower(s) == IF s = <<>> THEN <<>> ELSE <<LowerToken(Head(s))>> \o Lower(Tail(s))

RECURSIVE LStripDots(_)
LStripDots(s) == IF s # <<>> /\ Head(s) = "." THEN LStripDots(Tail(s)) ELSE s

\* Path(filename).suffix.lower().lstrip(".")
Extension(filename) == LStripDots(Lower(Suffix(filename)))

\* mimetypes.types_map, for the extensions of the model
TypesMap(ext) ==
    CASE ext = <<".", "png">> -> "image/png"
      [] ext = <<".", "jpg">> -> "image/jpeg"
      [] ext = <<".", "jpeg">> -> "image/jpeg"
      [] ext = <<".", "webp">> -> "image/webp"
      [] ext = <<".", "gif">> -> "image/gif"
      [] ext = <<".", "exe">> -> "application/x-msdos-program"
      [] OTHER -> "none"

\* posixpath.splitext(path)[1] of a path whose directories hold no dot
SplitExt(name) ==
    LET i == RFindDot(name)
    IN  IF i > 0 /\ \E k \in 1..(i - 1) : name[k] # "." THEN SubSeq(name, i, Len(name)) ELSE <<>>

\* mimetypes.guess_type(path)[0]: by the extension alone, exact case first
GuessType(name) ==
    LET ext == SplitExt(name)
    IN  IF TypesMap(ext) # "none" THEN TypesMap(ext) ELSE TypesMap(Lower(ext))

StartsWithImage(mime) == mime \in {"image/png", "image/jpeg", "image/webp", "image/gif"}

(***************************************************************************)
(* FileValidator (utils/validators.py).  Each check yields the exception   *)
(* it raises, NoError when it passes.                                      *)
(***************************************************************************)
\* round(size / (1024 * 1024), 2), in hundredths of a megabyte
RoundMb(size) == (size * 100 + 524288) \div 1048576

SizeExceeds(file_size) == file_size > MaxSizeBytes

validate_file_size(file_size) ==
    IF SizeExceeds(file_size)
    THEN ValidationError(<<"File size exceeds maximum limit of ", ToString(max_file_size_mb), "MB">>,
                         [max_size_mb |-> max_file_size_mb, received_size_mb |-> RoundMb(file_size)])
    ELSE NoError

\* variant: any extension at all is accepted
ExtensionAllowed_any(filename) == Extension(filename) # <<>>

ExtensionAllowed(filename) == Extension(filename) \in allowed_extensions

validate_file_extension(filename) ==
    IF ~ExtensionAllowed(filename)
    THEN ValidationError(<<"File extension '">> \o Extension(filename) \o <<"' not allowed">>,
                         [allowed_extensions |-> allowed_extensions,
                          received_extension |-> Extension(filename)])
    ELSE NoError

MimeIsImage(file_path) == GuessType(file_path) # "none" /\ StartsWithImage(GuessType(file_path))

validate_mime_type(file_path) ==
    IF ~MimeIsImage(file_path)
    THEN ValidationError(<<"File is not a valid image">>,
                         [mime_type |-> IF GuessType(file_path) = "none" THEN "unknown"
                                        ELSE GuessType(file_path)])
    ELSE NoError

\* PIL identifies an image by its bytes, whatever the name of the file
Decodable(content) == content.kind \in ImageKinds

NoMetadata == [format |-> "none", width |-> 0, height |-> 0]

\* Image.open(file_path): format, width and height of the decoded header
ImageOpen(content) ==
    IF Decodable(content)
    THEN [format |-> content.kind, width |-> content.width, height |-> content.height]
    ELSE NoMetadata

validate_image_format(content) ==
    IF ~Decodable(content)
    THEN ValidationError(<<"Failed to read image file">>, [error |-> "cannot identify image file"])
    ELSE NoError

\* variant: the extension is checked before the size
validate_file_extfirst(file_path, file_size, filename, content) ==
    IF validate_file_extension(filename) # NoError
    THEN [error |-> validate_file_extension(filename), checks |-> <<"extension">>,
          metadata |-> NoMetadata]
    ELSE IF validate_file_size(file_size) # NoError
    THEN [error |-> validate_file_size(file_size), checks |-> <<"extension", "size">>,
          metadata |-> NoMetadata]
    ELSE IF validate_mime_type(file_path) # NoError
    THEN [error |-> validate_mime_type(file_path), checks |-> <<"extension", "size", "mime">>,
          metadata |-> NoMetadata]
    ELSE [error |-> validate_image_format(content),
          checks |-> <<"extension", "size", "mime", "decode">>,
          metadata |-> ImageOpen(content)]

\* validate_file: the checks in order, the first failing one raises.  "checks"
\* lists the checks that were evaluated: "decode" is the call of Image.open.
validate_file(file_path, file_size, filename, content) ==
    IF validate_file_size(file_size) # NoError
    THEN [error |-> validate_file_size(file_size), checks |-> <<"size">>, metadata |-> NoMetadata]
    ELSE IF validate_file_extension(filename) # NoError
    THEN [error |-> validate_file_extension(filename), checks |-> <<"size", "extension">>,
          metadata |-> NoMetadata]
    ELSE IF validate_mime_type(file_path) # NoError
    THEN [error |-> validate_mime_type(file_path), checks |-> <<"size", "extension", "mime">>,
          metadata |-> NoMetadata]
    ELSE [error |-> validate_image_format(content),
          checks |-> <<"size", "extension", "mime", "decode">>,
          metadata |-> ImageOpen(content)]

NoValidation == [error |-> NoError, checks |-> <<>>, metadata |-> NoMetadata]

(***************************************************************************)
(* WatermarkService helpers (services/watermark_service.py).               *)
(***************************************************************************)
\* variant: small only when both sides are at most 1024
_detect_watermark_size_both(width, height) ==
    IF width <= 1024 /\ height <= 1024 THEN "small_48x48" ELSE "large_96x96"

_detect_watermark_size(width, height) ==
    IF width <= 1024 \/ height <= 1024 THEN "small_48x48" ELSE "large_96x96"

\* metadata_dict["format"].lower()
FormatLower(format) ==
    CASE format = "PNG" -> "png"
      [] format = "JPEG" -> "jpeg"
      [] format = "GIF" -> "gif"
      [] format = "WEBP" -> "webp"
      [] format = "BMP" -> "bmp"
      [] OTHER -> format

\* _create_image_metadata: the exception it raises, NoError when the format maps
CreateMetadataError(metadata) ==
    IF FormatLower(metadata.format) \in {"jpg", "jpeg", "png", "webp", "bmp"}
    THEN NoError
    ELSE ValidationError(<<"Unsupported format: ", FormatLower(metadata.format)>>, NoDetails)

(***************************************************************************)
(* base64.b64encode: three bytes to four sextets, "=" (64) padding.        *)
(***************************************************************************)
RECURSIVE B64Encode(_)
B64Encode(bytes) ==
    IF Len(bytes) = 0 THEN <<>>
    ELSE IF Len(bytes) = 1
    THEN <<bytes[1] \div 4, (bytes[1] % 4) * 16, 64, 64>>
    ELSE IF Len(bytes) = 2
    THEN <<bytes[1] \div 4, (bytes[1] % 4) * 16 + bytes[2] \div 16, (bytes[2] % 16) * 4, 64>>
    ELSE <<bytes[1] \div 4, (bytes[1] % 4) * 16 + bytes[2] \div 16,
           (bytes[2] % 16) * 4 + bytes[3] \div 64, bytes[3] % 64>>
         \o B64Encode(SubSeq(bytes, 4, Len(bytes)))

\* bytes.decode("utf-8", errors="replace") of captured output
RECURSIVE DecodeReplace(_)
DecodeReplace(bytes) ==
    IF bytes = <<>> THEN <<>>
    ELSE <<IF Head(bytes) = "xFF" THEN "uFFFD" ELSE Head(bytes)>> \o DecodeReplace(Tail(bytes))

(***************************************************************************)
(* TurnstileService (services/turnstile_service.py).                       *)
(***************************************************************************)
ErrorMessageOf(code) ==
    CASE code = "missing-input-secret" -> "Server configuration error"
      [] code = "invalid-input-secret" -> "Server configuration error"
      [] code = "missing-input-response" -> "Verification token is missing"
      [] code = "invalid-input-response" -> "Verification token is invalid or expired"
      [] code = "bad-request" -> "Invalid verification request"
      [] code = "timeout-or-duplicate" -> "Token has expired or was already used"
      [] OTHER -> "none"

RECURSIVE _get_error_message(_)
\* variant: the message of the last known code of the list
_get_error_message_last(error_codes) ==
    LET known == {i \in 1..Len(error_codes) : ErrorMessageOf(error_codes[i]) # "none"}
    IN  IF known = {} THEN "Verification failed"
        ELSE ErrorMessageOf(error_codes[CHOOSE i \in known : \A j \in known : j <= i])

_get_error_message(error_codes) ==
    IF error_codes = <<>> THEN "Verification failed"
    ELSE IF ErrorMessageOf(Head(error_codes)) # "none" THEN ErrorMessageOf(Head(error_codes))
    ELSE _get_error_message(Tail(error_codes))

\* what the provider call yields: a JSON answer (success or not), a transport
\* or status failure (httpx.HTTPError), or a body that is not JSON
ProviderAnswers ==
    {[kind |-> "success", error_codes |-> <<>>],
     [kind |-> "http_error", error_codes |-> <<>>],
     [kind |-> "bad_json", error_codes |-> <<>>]}
    \cup {[kind |-> "failure", error_codes |-> c] : c \in ErrorCodeSamples}

\* variant: without a secret the verification is bypassed in every run mode
verify_token_bypass(secret_configured, app_env, answer) ==
    IF ~secret_configured THEN NoError
    ELSE CASE answer.kind = "success" -> NoError
           [] answer.kind = "failure" ->
                TurnstileError(<<"Turnstile verification failed">>,
                               [error_codes |-> answer.error_codes,
                                message |-> _get_error_message(answer.error_codes)])
           [] answer.kind = "http_error" ->
                TurnstileError(<<"Failed to verify Turnstile token">>, [error |-> "httpx.HTTPError"])
           [] OTHER -> BuiltinError("JSONDecodeError", "Expecting value")

\* verify_token: the exception it raises, NoError when it returns
verify_token(secret_configured, app_env, answer) ==
    IF ~secret_configured
    THEN IF app_env = "development" THEN NoError
         ELSE TurnstileError(<<"Turnstile verification not configured">>,
                             [error |-> "missing_secret_key"])
    ELSE CASE answer.kind = "success" -> NoError
           [] answer.kind = "failure" ->
                TurnstileError(<<"Turnstile verification failed">>,
                               [error_codes |-> answer.error_codes,
                                message |-> _get_error_message(answer.error_codes)])
           [] answer.kind = "http_error" ->
                TurnstileError(<<"Failed to verify Turnstile token">>, [error |-> "httpx.HTTPError"])
           [] OTHER -> BuiltinError("JSONDecodeError", "Expecting value")

NoAnswer == [kind |-> "none", error_codes |-> <<>>]
NoVerifyResult == [success |-> FALSE, bypass |-> FALSE]
NoVerified == [called |-> FALSE, answer |-> NoAnswer, result |-> NoVerifyResult]

\* verify_token besides what it raises: whether it posts to the provider
\* (only past the "if not self.secret_key" branch), the answer it got, and the
\* dict it returns ({"success": True, "bypass": True} on the bypass, the
\* provider's JSON otherwise)
verify_call(secret_configured, app_env, answer) ==
    [called |-> secret_configured,
     answer |-> IF secret_configured THEN answer ELSE NoAnswer,
     result |-> IF verify_token(secret_configured, app_env, answer) # NoError THEN NoVerifyResult
                ELSE [success |-> TRUE, bypass |-> ~secret_configured]]

(***************************************************************************)
(* State.                                                                  *)
(***************************************************************************)
VARIABLES
    settings,    \* turnstile secret configured or not, run mode
    uploadDir,   \* upload directory: the files in it
    outputDir,   \* output directory: the files in it
    nextUuid,    \* uuid4: the next fresh identifier
    pc,          \* per request: where its handler stands
    upload,      \* per request: the multipart file (filename, bytes)
    saved,       \* per request: upload_result of save_upload
    validation,  \* per request: validation_result and the checks evaluated
    job,         \* per request: its ProcessingJob
    proc,        \* per request: the subprocess
    tool,        \* per request: what the tool does (run time, exit code, output)
    result,      \* per request: what execute captured
    error,       \* per request: the exception being raised
    response,    \* per request: the SingleImageResponse
    http,        \* per request: what the client receives
    cleanup,     \* per request: the background cleanup task
    steps,       \* per request: the pipeline steps completed, in order, with their outcome
    binary,      \* per request: the file at binary_path as execute found it
    deleteLog,   \* per request: the calls of delete_file, with what each did and logged
    now,         \* the wall clock, in hours
    sweep,       \* the run of cleanup_old_files, if one is under way
    verified,    \* per request: what verify_token did (provider called, its answer, the dict returned)
    spawns       \* per request: the calls of execute and of create_subprocess_exec so far

vars == <<settings, uploadDir, outputDir, nextUuid, pc, upload, saved, validation, job, proc,
          tool, result, error, response, http, cleanup, steps, binary, deleteLog, now, sweep,
          verified, spawns>>

\* the clock and the sweep, which no step of a request changes
timeVars == <<now, sweep>>

fsVars == <<uploadDir, outputDir>>

NoUpload == [filename |-> <<>>, size |-> 0, kind |-> "none"]
NoSaved == [filename |-> <<>>, job_id |-> 0]
NoJob == [job_id |-> 0, status |-> "none", exit_code |-> <<>>, error_message |-> <<>>,
          watermark_size |-> "unknown", output_name |-> <<>>]
NoOutput == [wrote |-> FALSE, bytes |-> <<>>]
NoTool == [duration |-> 0, returncode |-> <<>>, stdout |-> <<>>, stderr |-> <<>>, out |-> NoOutput]
NoResult == [exit_code |-> <<>>, stdout |-> <<>>, stderr |-> <<>>, success |-> FALSE]
NoResponse == [status |-> "none", job_id |-> 0, processed_image_base64 |-> <<>>,
               original_filename |-> <<>>, output_filename |-> <<>>,
               watermark_size |-> "unknown"]
NoSpawns == [calls |-> 0, attempts |-> 0]
NoHttp == [status_code |-> 0, error |-> "none", message |-> <<>>, details |-> NoDetails]

\* no sweep under way: which directory it is in, the names listed and not yet
\* examined, the file at hand, the cutoff, the counts
NoSweep == [pc |-> "idle", directory |-> "none", listing |-> {}, file |-> <<>>,
            cutoff_time |-> 0, deleted_count |-> [uploads |-> 0, outputs |-> 0],
            before |-> [uploads |-> {}, outputs |-> {}]]

JobStatus == {"pending", "processing", "completed", "failed"}

UuidToken(n) == "uuid" \o ToString(n)

Init ==
    /\ settings \in [secret_configured : BOOLEAN, app_env : AppEnvs]
    /\ uploadDir = {}
    /\ outputDir = {}
    /\ nextUuid = 1
    /\ pc = [r \in Requests |-> "idle"]
    /\ upload = [r \in Requests |-> NoUpload]
    /\ saved = [r \in Requests |-> NoSaved]
    /\ validation = [r \in Requests |-> NoValidation]
    /\ job = [r \in Requests |-> NoJob]
    /\ proc = [r \in Requests |-> "none"]
    /\ tool = [r \in Requests |-> NoTool]
    /\ result = [r \in Requests |-> NoResult]
    /\ error = [r \in Requests |-> NoError]
    /\ response = [r \in Requests |-> NoResponse]
    /\ http = [r \in Requests |-> NoHttp]
    /\ cleanup = [r \in Requests |-> "none"]
    /\ steps = [r \in Requests |-> <<>>]
    /\ binary = [r \in Requests |-> "unseen"]
    /\ deleteLog = [r \in Requests |-> <<>>]
    /\ verified = [r \in Requests |-> NoVerified]
    /\ spawns = [r \in Requests |-> NoSpawns]
    /\ now = 0
    /\ sweep = NoSweep

\* a pipeline step of request r has completed, with success or by raising
Log(r, step, ok) == steps' = [steps EXCEPT ![r] = Append(@, [step |-> step, ok |-> ok])]

\* the handler of r raises e
Raise(r, e) ==
    /\ error' = [error EXCEPT ![r] = e]
    /\ pc' = [pc EXCEPT ![r] = "raise"]

\* a directory is the set of its files, each a name with its content
HasFile(dir, name) == \E f \in dir : f.name = name

FileContent(dir, name) == (CHOOSE f \in dir : f.name = name).content

\* Path.write_bytes: creates the file, or replaces the content of an existing
\* one; the modification time of the file is the time of the write
WriteFile(dir, name, content) ==
    {f \in dir : f.name # name} \cup {[name |-> name, content |-> content, mtime |-> now]}

\* Path.unlink
RemoveFile(dir, name) == {f \in dir : f.name # name}

\* an exception raised inside the try block of process_single_image
RaiseInJob(r, e) ==
    /\ error' = [error EXCEPT ![r] = e]
    /\ pc' = [pc EXCEPT ![r] = "job_failed"]

\* str(e)
Str(e) == e.message

(***************************************************************************)
(* remove_watermark (api/routes.py), up to the call of                     *)
(* process_single_image.                                                   *)
(***************************************************************************)
\* a request arrives: multipart file and token; "if not file.filename"
Receive(r) ==
    /\ pc[r] = "idle"
    /\ \E filename \in FileNames, size \in FileSizes, kind \in ContentKinds :
         /\ upload' = [upload EXCEPT ![r] = [filename |-> filename, size |-> size, kind |-> kind]]
         /\ IF filename = <<>>
            THEN /\ Raise(r, ValidationError(<<"No file provided">>, NoDetails))
                 /\ Log(r, "filename", FALSE)
            ELSE /\ pc' = [pc EXCEPT ![r] = "verify"]
                 /\ Log(r, "filename", TRUE)
                 /\ UNCHANGED error
    /\ UNCHANGED <<timeVars, binary, deleteLog, settings, verified, spawns, fsVars, nextUuid, saved, validation, job, proc, tool, result,
                   response, http, cleanup>>

\* variant: the exception of verify_token is swallowed and the handler goes on
VerifyToken_swallow(r) ==
    /\ pc[r] = "verify"
    /\ \E answer \in ProviderAnswers :
         /\ Log(r, "verify", verify_token(settings.secret_configured, settings.app_env, answer) = NoError)
         /\ verified' = [verified EXCEPT ![r] =
                           verify_call(settings.secret_configured, settings.app_env, answer)]
    /\ pc' = [pc EXCEPT ![r] = "read_file"]
    /\ UNCHANGED <<timeVars, binary, deleteLog, settings, spawns, fsVars, nextUuid, upload, saved, validation, job, proc, tool,
                   result, error, response, http, cleanup>>

\* @limiter.limit: the request is over the rate limit; rate_limit_handler answers
RateLimited(r) ==
    /\ pc[r] = "idle"
    /\ http' = [http EXCEPT ![r] =
                 [status_code |-> 429, error |-> "RateLimitExceeded",
                  message |-> <<"Too many requests. Please try again later.">>,
                  details |-> [limit |-> "rate_limit_per_minute requests per minute"]]]
    /\ pc' = [pc EXCEPT ![r] = "done"]
    /\ UNCHANGED <<timeVars, binary, deleteLog, settings, verified, spawns, fsVars, nextUuid, upload, saved, validation, job, proc, tool,
                   result, error, response, cleanup, steps>>

\* await turnstile_service.verify_token(...), then the UploadSession
VerifyToken(r) ==
    /\ pc[r] = "verify"
    /\ \E answer \in ProviderAnswers :
         LET e == verify_token(settings.secret_configured, settings.app_env, answer)
         IN  /\ verified' = [verified EXCEPT ![r] =
                               verify_call(settings.secret_configured, settings.app_env, answer)]
             /\ IF e # NoError
                THEN Raise(r, e) /\ Log(r, "verify", FALSE)
                ELSE /\ pc' = [pc EXCEPT ![r] = "read_file"]
                     /\ Log(r, "verify", TRUE)
                     /\ UNCHANGED error
    /\ UNCHANGED <<timeVars, binary, deleteLog, settings, spawns, fsVars, nextUuid, upload, saved, validation, job, proc, tool,
                   result, response, http, cleanup>>

(***************************************************************************)
(* FileService.delete_file and cleanup_old_files                           *)
(* (services/file_service.py), and the clock.                              *)
(***************************************************************************)
requestVars == <<settings, nextUuid, pc, upload, saved, validation, job, proc, tool, result,
                 error, response, http, cleanup, steps, binary, deleteLog, verified,
                 spawns>>

\* variant: the call empties the directory
delete_file_all(dir, name) == {}

\* the directory after delete_file(name) when nothing else touches it meanwhile:
\* "if file_path.exists(): file_path.unlink()"
delete_file(dir, name) == IF HasFile(dir, name) THEN RemoveFile(dir, name) ELSE dir

\* st_mtime of a file of the directory
FileMtime(dir, name) == (CHOOSE f \in dir : f.name = name).mtime

\* time passes
Tick ==
    /\ now < MaxClock
    /\ now' = now + 1
    /\ UNCHANGED <<sweep, requestVars, fsVars>>

\* the directory the sweep is in
SweepDirectory == IF sweep.directory = "uploads" THEN uploadDir ELSE outputDir

\* cleanup_old_files is called: cutoff_time = now - retention, deleted_count = 0,
\* and the loop starts with the upload directory; "before" keeps the two
\* directories as they are at the call
SweepStart ==
    /\ sweep.pc \in {"idle", "returned", "raised"}
    /\ sweep' = [NoSweep EXCEPT !.pc = "list", !.directory = "uploads",
                                !.cutoff_time = now - ephemeral_retention_hours,
                                !.before = [uploads |-> uploadDir, outputs |-> outputDir]]
    /\ UNCHANGED <<now, requestVars, fsVars>>

\* directory_path.iterdir(): the names in the directory at this moment
SweepList ==
    /\ sweep.pc = "list"
    /\ sweep' = [sweep EXCEPT !.pc = "iterate", !.listing = {f.name : f \in SweepDirectory}]
    /\ UNCHANGED <<now, requestVars, fsVars>>

\* the next listed name: "if not file_path.is_file(): continue"
SweepIsFile ==
    /\ sweep.pc = "iterate"
    /\ \E name \in sweep.listing :
         sweep' = [sweep EXCEPT !.listing = @ \ {name},
                                !.file = IF HasFile(SweepDirectory, name) THEN name ELSE <<>>,
                                !.pc = IF HasFile(SweepDirectory, name) THEN "stat" ELSE "iterate"]
    /\ UNCHANGED <<now, requestVars, fsVars>>

\* variant: a file as old as the cutoff is deleted too
SweepStat_le ==
    /\ sweep.pc = "stat"
    /\ sweep' = [sweep EXCEPT !.pc =
                   IF ~HasFile(SweepDirectory, sweep.file) THEN "raised"
                   ELSE IF FileMtime(SweepDirectory, sweep.file) <= sweep.cutoff_time
                        THEN "unlink" ELSE "iterate"]
    /\ UNCHANGED <<now, requestVars, fsVars>>

\* file_path.stat().st_mtime, outside any try block: a file that has gone since
\* is_file() makes stat raise, and the exception leaves cleanup_old_files;
\* "if file_mtime < cutoff_time"
SweepStat ==
    /\ sweep.pc = "stat"
    /\ sweep' = [sweep EXCEPT !.pc =
                   IF ~HasFile(SweepDirectory, sweep.file) THEN "raised"
                   ELSE IF FileMtime(SweepDirectory, sweep.file) < sweep.cutoff_time
                        THEN "unlink" ELSE "iterate"]
    /\ UNCHANGED <<now, requestVars, fsVars>>

\* the directory and the sweep after file_path.unlink() has removed the file
SweepRemoved(dir) ==
    [dir |-> RemoveFile(dir, sweep.file),
     sweep |-> [sweep EXCEPT !.pc = "iterate", !.deleted_count[sweep.directory] = @ + 1]]

\* "try: file_path.unlink(); deleted_count += 1; except Exception: warning":
\* the file is removed and counted, or unlink fails (the file has gone, or may
\* not be removed) and the loop goes on
SweepUnlink ==
    /\ sweep.pc = "unlink"
    /\ \/ /\ HasFile(SweepDirectory, sweep.file)
          /\ sweep' = SweepRemoved(SweepDirectory).sweep
          /\ IF sweep.directory = "uploads"
             THEN uploadDir' = SweepRemoved(uploadDir).dir /\ UNCHANGED outputDir
             ELSE outputDir' = SweepRemoved(outputDir).dir /\ UNCHANGED uploadDir
       \/ /\ sweep' = [sweep EXCEPT !.pc = "iterate"]
          /\ UNCHANGED fsVars
    /\ UNCHANGED <<now, requestVars>>

\* the inner loop is over: on to the output directory, or log and return the counts
SweepEndDirectory ==
    /\ sweep.pc = "iterate"
    /\ sweep.listing = {}
    /\ sweep' = IF sweep.directory = "uploads"
                THEN [sweep EXCEPT !.pc = "list", !.directory = "outputs"]
                ELSE [sweep EXCEPT !.pc = "returned"]
    /\ UNCHANGED <<now, requestVars, fsVars>>

\* variant: the limit itself is rejected
RouteSizeExceeds_ge(size) == size >= max_file_size_mb * 1024 * 1024

\* the size check of the route: len(file_content) > max_file_size_mb * 1024 * 1024
RouteSizeExceeds(size) == size > max_file_size_mb * 1024 * 1024

\* file_content = await file.read(), then the size check
ReadFile(r) ==
    /\ pc[r] = "read_file"
    /\ IF RouteSizeExceeds(upload[r].size)
       THEN /\ Raise(r, ValidationError(<<"File size exceeds ", ToString(max_file_size_mb), "MB limit">>,
                                        [max_size_mb |-> max_file_size_mb,
                                         received_size_mb |-> RoundMb(upload[r].size)]))
            /\ Log(r, "size", FALSE)
       ELSE /\ pc' = [pc EXCEPT ![r] = "save"]
            /\ Log(r, "size", TRUE)
            /\ UNCHANGED error
    /\ UNCHANGED <<timeVars, binary, deleteLog, settings, verified, spawns, fsVars, nextUuid, upload, saved, validation, job, proc, tool,
                   result, response, http, cleanup>>

(***************************************************************************)
(* process_single_image (services/watermark_service.py).                   *)
(***************************************************************************)
\* variant: the upload is stored under the name the client gave
generate_filename_original(uuid, original_filename) == original_filename

\* generate_filename: a fresh uuid followed by the suffix of the original name
generate_filename(uuid, original_filename) == <<UuidToken(uuid)>> \o Suffix(original_filename)

\* job_id = uuid4(); upload_result = await save_upload(file_content, filename)
SaveUpload(r) ==
    /\ pc[r] = "save"
    /\ LET unique_filename == generate_filename(nextUuid + 1, upload[r].filename)
       IN  /\ saved' = [saved EXCEPT ![r] = [filename |-> unique_filename, job_id |-> nextUuid]]
           /\ uploadDir' = WriteFile(uploadDir, unique_filename,
                                     [kind |-> upload[r].kind, size |-> upload[r].size])
    /\ nextUuid' = nextUuid + 2
    /\ pc' = [pc EXCEPT ![r] = "validate"]
    /\ Log(r, "save", TRUE)
    /\ UNCHANGED <<timeVars, binary, deleteLog, settings, verified, spawns, outputDir, upload, validation, job, proc, tool, result, error,
                   response, http, cleanup>>

\* what Image.open finds at the path of the upload: the bytes saved there, or no
\* file any more
SavedKind(r) ==
    IF HasFile(uploadDir, saved[r].filename)
    THEN FileContent(uploadDir, saved[r].filename).kind ELSE "missing"

\* variant: a failed validation does not stop the pipeline
ValidateFile_ignoring(r) ==
    /\ pc[r] = "validate"
    /\ \E width \in Dimensions, height \in Dimensions :
         LET content == [kind |-> SavedKind(r),
                         width |-> width, height |-> height]
             v == validate_file(saved[r].filename, upload[r].size, upload[r].filename, content)
         IN  /\ validation' = [validation EXCEPT ![r] = [v EXCEPT !.metadata = ImageOpen(content)]]
             /\ Log(r, "validate", v.error = NoError)
    /\ pc' = [pc EXCEPT ![r] = "metadata"]
    /\ UNCHANGED <<timeVars, binary, deleteLog, settings, verified, spawns, fsVars, nextUuid, upload, saved, job, proc, tool, result, error,
                   response, http, cleanup>>

\* variant: the validation error is wrapped like a failure of the tool
ValidateFile_wrapped(r) ==
    /\ pc[r] = "validate"
    /\ \E width \in Dimensions, height \in Dimensions :
         LET content == [kind |-> SavedKind(r),
                         width |-> width, height |-> height]
             v == validate_file(saved[r].filename, upload[r].size, upload[r].filename, content)
         IN  /\ validation' = [validation EXCEPT ![r] = v]
             /\ IF v.error # NoError
                THEN /\ Raise(r, ProcessingError(<<"Failed to process image: ">> \o Str(v.error),
                                                 [job_id |-> saved[r].job_id, error |-> Str(v.error)]))
                     /\ Log(r, "validate", FALSE)
                ELSE /\ pc' = [pc EXCEPT ![r] = "metadata"]
                     /\ Log(r, "validate", TRUE)
                     /\ UNCHANGED error
    /\ UNCHANGED <<timeVars, binary, deleteLog, settings, verified, spawns, fsVars, nextUuid, upload, saved, job,
                   proc, tool, result, response, http, cleanup>>

\* validation_result = validate_file(input_path, len(file_content), filename); the
\* header of the saved bytes gives the dimensions when Image.open decodes it
ValidateFile(r) ==
    /\ pc[r] = "validate"
    /\ \E width \in Dimensions, height \in Dimensions :
         LET content == [kind |-> SavedKind(r),
                         width |-> width, height |-> height]
             v == validate_file(saved[r].filename, upload[r].size, upload[r].filename, content)
         IN  /\ validation' = [validation EXCEPT ![r] = v]
             /\ IF v.error # NoError
                THEN Raise(r, v.error) /\ Log(r, "validate", FALSE)
                ELSE /\ pc' = [pc EXCEPT ![r] = "metadata"]
                     /\ Log(r, "validate", TRUE)
                     /\ UNCHANGED error
    /\ UNCHANGED <<timeVars, binary, deleteLog, settings, verified, spawns, fsVars, nextUuid, upload, saved, job, proc, tool, result,
                   response, http, cleanup>>

\* _create_image_metadata, _detect_watermark_size, get_output_path and the
\* ProcessingJob in status processing
CreateJob(r) ==
    /\ pc[r] = "metadata"
    /\ LET m == validation[r].metadata
       IN  IF CreateMetadataError(m) # NoError
           THEN /\ Raise(r, CreateMetadataError(m))
                /\ Log(r, "metadata", FALSE)
                /\ UNCHANGED job
           ELSE /\ job' = [job EXCEPT ![r] =
                            [job_id |-> saved[r].job_id, status |-> "processing",
                             exit_code |-> <<>>, error_message |-> <<>>,
                             watermark_size |-> _detect_watermark_size(m.width, m.height),
                             output_name |-> saved[r].filename]]
                /\ pc' = [pc EXCEPT ![r] = "exec_check"]
                /\ Log(r, "classify", TRUE)
                /\ UNCHANGED error
    /\ UNCHANGED <<timeVars, binary, deleteLog, settings, verified, spawns, fsVars, nextUuid, upload, saved, validation, proc, tool, result,
                   response, http, cleanup>>


(***************************************************************************)
(* BinaryExecutor.execute (utils/binary_executor.py), called inside the    *)
(* try block of process_single_image.                                      *)
(***************************************************************************)
\* what is at binary_path: nothing (or not a regular file), a regular file
\* without execute permission, a regular file with it
BinaryStates == {"absent", "not_executable", "executable"}

\* Path(self.binary_path).is_file()
is_file(b) == b # "absent"

\* the error of a binary that is_file() does not find
BinaryNotFound ==
    BinaryExecutionError(<<"Binary not found at ", "binary_path">>, [binary_path |-> "binary_path"])

\* variant: the existence check is skipped
ExecCheckBinary_unchecked(r) ==
    /\ pc[r] = "exec_check"
    /\ \E b \in BinaryStates : binary' = [binary EXCEPT ![r] = b]
    /\ pc' = [pc EXCEPT ![r] = "exec_spawn"]
    /\ spawns' = [spawns EXCEPT ![r].calls = @ + 1]
    /\ UNCHANGED <<timeVars, deleteLog, settings, verified, fsVars, nextUuid, upload, saved, validation,
                   job, proc, tool, result, response, http, cleanup, error, steps>>

\* "if not Path(self.binary_path).is_file()": raise, or go on to the command
ExecCheckBinary(r) ==
    /\ pc[r] = "exec_check"
    /\ \E b \in BinaryStates :
         /\ binary' = [binary EXCEPT ![r] = b]
         /\ IF ~is_file(b)
            THEN /\ RaiseInJob(r, BinaryNotFound)
                 /\ Log(r, "execute", FALSE)
            ELSE /\ pc' = [pc EXCEPT ![r] = "exec_spawn"]
                 /\ UNCHANGED <<error, steps>>
    /\ spawns' = [spawns EXCEPT ![r].calls = @ + 1]
    /\ UNCHANGED <<timeVars, deleteLog, settings, verified, fsVars, nextUuid, upload, saved, validation, job, proc, tool,
                   result, response, http, cleanup>>

\* what create_subprocess_exec does with the file execute found: exec of a file
\* without execute permission fails with PermissionError, of a missing one with
\* FileNotFoundError; an executable starts, unless it has vanished since the
\* check or the child's error report cannot be read (subprocess.SubprocessError)
SpawnOutcomes(b) ==
    CASE b = "executable" -> {"spawned", "FileNotFoundError", "SubprocessError"}
      [] b = "not_executable" -> {"PermissionError"}
      [] OTHER -> {"FileNotFoundError"}

\* the except clause of execute: a subprocess.SubprocessError is wrapped, any
\* other exception leaves execute as it is
ExecuteExcept(e) ==
    IF e.type = "SubprocessError"
    THEN BinaryExecutionError(<<"Failed to execute binary: ">> \o Str(e), [error |-> Str(e)])
    ELSE e

\* process = await asyncio.create_subprocess_exec(*cmd, ...)
ExecSpawn(r) ==
    /\ pc[r] = "exec_spawn"
    /\ \E outcome \in SpawnOutcomes(binary[r]) :
         IF outcome = "spawned"
         THEN /\ \E d \in DurationSamples :
                   tool' = [tool EXCEPT ![r] = [NoTool EXCEPT !.duration = d]]
              /\ proc' = [proc EXCEPT ![r] = "running"]
              /\ pc' = [pc EXCEPT ![r] = "exec_communicate"]
              /\ UNCHANGED <<error, steps>>
         ELSE /\ RaiseInJob(r, ExecuteExcept(BuiltinError(outcome, "[Errno] binary_path")))
              /\ Log(r, "execute", FALSE)
              /\ UNCHANGED <<proc, tool>>
    /\ spawns' = [spawns EXCEPT ![r].attempts = @ + 1]
    /\ UNCHANGED <<timeVars, binary, deleteLog, settings, verified, fsVars, nextUuid, upload, saved, validation, job, result,
                   response, http, cleanup>>

\* what the tool leaves at the output path: nothing, or a file with some bytes
ToolOutputs == {NoOutput} \cup {[wrote |-> TRUE, bytes |-> b] : b \in OutputSamples}

ToolWrites(r, out) ==
    outputDir' = IF out.wrote THEN WriteFile(outputDir, job[r].output_name, out.bytes)
                 ELSE outputDir

\* the tool ends by itself, within the timeout: exit code, pipes, output file
ToolExit(r) ==
    /\ proc[r] = "running"
    /\ tool[r].duration <= binary_timeout_seconds
    /\ \E code \in ExitCodes, pipes \in StreamSamples, out \in ToolOutputs :
         /\ tool' = [tool EXCEPT ![r] = [duration |-> @.duration, returncode |-> <<code>>,
                                         stdout |-> pipes.stdout, stderr |-> pipes.stderr,
                                         out |-> out]]
         /\ ToolWrites(r, out)
    /\ proc' = [proc EXCEPT ![r] = "zombie"]
    /\ UNCHANGED <<timeVars, binary, deleteLog, settings, verified, spawns, uploadDir, nextUuid, pc, upload, saved, validation, job, result,
                   error, response, http, cleanup, steps>>

\* the event loop's child watcher reaps the exited child (waitpid)
ChildReap(r) ==
    /\ proc[r] = "zombie"
    /\ proc' = [proc EXCEPT ![r] = "reaped"]
    /\ UNCHANGED <<timeVars, binary, deleteLog, settings, verified, spawns, fsVars, nextUuid, pc, upload, saved, validation, job, tool,
                   result, error, response, http, cleanup, steps>>

\* variant: only a positive exit code raises
CommunicateReturn_positive(r) ==
    /\ pc[r] = "exec_communicate"
    /\ proc[r] = "reaped"
    /\ LET exit_code == tool[r].returncode[1]
           stdout_text == DecodeReplace(tool[r].stdout)
           stderr_text == DecodeReplace(tool[r].stderr)
       IN  /\ result' = [result EXCEPT ![r] = [exit_code |-> <<exit_code>>, stdout |-> stdout_text,
                                               stderr |-> stderr_text, success |-> exit_code = 0]]
           /\ IF exit_code > 0
              THEN /\ RaiseInJob(r, BinaryExecutionError(
                                      <<"Binary execution failed with exit code ", ToString(exit_code)>>,
                                      [stderr |-> stderr_text, stdout |-> stdout_text,
                                       exit_code |-> exit_code]))
                   /\ Log(r, "execute", FALSE)
              ELSE /\ pc' = [pc EXCEPT ![r] = "set_completed"]
                   /\ Log(r, "execute", TRUE)
                   /\ UNCHANGED error
    /\ UNCHANGED <<timeVars, binary, deleteLog, settings, verified, spawns, fsVars, nextUuid, upload, saved, validation, job, proc, tool,
                   response, http, cleanup>>

\* communicate() returns within the timeout: exit code and decoded streams;
\* a nonzero exit code raises
CommunicateReturn(r) ==
    /\ pc[r] = "exec_communicate"
    /\ proc[r] = "reaped"
    /\ LET exit_code == tool[r].returncode[1]
           stdout_text == DecodeReplace(tool[r].stdout)
           stderr_text == DecodeReplace(tool[r].stderr)
       IN  /\ result' = [result EXCEPT ![r] = [exit_code |-> <<exit_code>>, stdout |-> stdout_text,
                                               stderr |-> stderr_text, success |-> exit_code = 0]]
           /\ IF exit_code # 0
              THEN /\ RaiseInJob(r, BinaryExecutionError(
                                      <<"Binary execution failed with exit code ", ToString(exit_code)>>,
                                      [stderr |-> stderr_text, stdout |-> stdout_text,
                                       exit_code |-> exit_code]))
                   /\ Log(r, "execute", FALSE)
              ELSE /\ pc' = [pc EXCEPT ![r] = "set_completed"]
                   /\ Log(r, "execute", TRUE)
                   /\ UNCHANGED error
    /\ UNCHANGED <<timeVars, binary, deleteLog, settings, verified, spawns, fsVars, nextUuid, upload, saved, validation, job, proc, tool,
                   response, http, cleanup>>

\* asyncio.wait_for gives up: the timeout has passed and communicate() has not returned
WaitForTimeout(r) ==
    /\ pc[r] = "exec_communicate"
    /\ proc[r] \in {"running", "zombie"}
    /\ tool[r].duration >= binary_timeout_seconds
    /\ pc' = [pc EXCEPT ![r] = "exec_kill"]
    /\ UNCHANGED <<timeVars, binary, deleteLog, settings, verified, spawns, fsVars, nextUuid, upload, saved, validation, job, proc, tool,
                   result, error, response, http, cleanup, steps>>

\* process.kill(): SIGKILL ends a running child, which may have written output;
\* nothing is sent to a child that has exited and is not yet reaped; once the
\* event loop has reaped the child its transport raises ProcessLookupError
ExecKill(r) ==
    /\ pc[r] = "exec_kill"
    /\ CASE proc[r] = "running" ->
              /\ proc' = [proc EXCEPT ![r] = "zombie"]
              /\ \E out \in ToolOutputs :
                   /\ tool' = [tool EXCEPT ![r].returncode = <<-9>>, ![r].out = out]
                   /\ ToolWrites(r, out)
              /\ pc' = [pc EXCEPT ![r] = "exec_wait"]
              /\ UNCHANGED <<error, steps>>
         [] proc[r] = "zombie" ->
              /\ pc' = [pc EXCEPT ![r] = "exec_wait"]
              /\ UNCHANGED <<proc, tool, outputDir, error, steps>>
         [] OTHER ->
              /\ RaiseInJob(r, ExecuteExcept(BuiltinError("ProcessLookupError", "")))
              /\ Log(r, "execute", FALSE)
              /\ UNCHANGED <<proc, tool, outputDir>>
    /\ UNCHANGED <<timeVars, binary, deleteLog, settings, verified, spawns, uploadDir, nextUuid, upload, saved, validation, job, result,
                   response, http, cleanup>>

\* variant: the timeout error is raised without waiting for the child
ExecWait_nowait(r) ==
    /\ pc[r] = "exec_wait"
    /\ RaiseInJob(r, BinaryExecutionError(
                       <<"Binary execution timed out after ", ToString(binary_timeout_seconds), " seconds">>,
                       [timeout_seconds |-> binary_timeout_seconds]))
    /\ Log(r, "execute", FALSE)
    /\ UNCHANGED <<timeVars, binary, deleteLog, settings, verified, spawns, fsVars, nextUuid, upload, saved, validation, job, proc, tool,
                   result, response, http, cleanup>>

\* await process.wait() returns once the child is reaped; then the timeout error
ExecWait(r) ==
    /\ pc[r] = "exec_wait"
    /\ proc[r] = "reaped"
    /\ RaiseInJob(r, BinaryExecutionError(
                       <<"Binary execution timed out after ", ToString(binary_timeout_seconds), " seconds">>,
                       [timeout_seconds |-> binary_timeout_seconds]))
    /\ Log(r, "execute", FALSE)
    /\ UNCHANGED <<timeVars, binary, deleteLog, settings, verified, spawns, fsVars, nextUuid, upload, saved, validation, job, proc, tool,
                   result, response, http, cleanup>>

(***************************************************************************)
(* process_single_image after execute has returned, and its except block.  *)
(***************************************************************************)
\* variant: the status is left as it was
SetCompleted_forget(r) ==
    /\ pc[r] = "set_completed"
    /\ job' = [job EXCEPT ![r].exit_code = result[r].exit_code]
    /\ pc' = [pc EXCEPT ![r] = "get_file"]
    /\ UNCHANGED <<timeVars, binary, deleteLog, settings, verified, spawns, fsVars, nextUuid, upload, saved, validation, proc, tool, result,
                   error, response, http, cleanup, steps>>

\* job.status = JobStatus.COMPLETED, completed_at, binary_exit_code
SetCompleted(r) ==
    /\ pc[r] = "set_completed"
    /\ job' = [job EXCEPT ![r].status = "completed", ![r].exit_code = result[r].exit_code]
    /\ pc' = [pc EXCEPT ![r] = "get_file"]
    /\ UNCHANGED <<timeVars, binary, deleteLog, settings, verified, spawns, fsVars, nextUuid, upload, saved, validation, proc, tool, result,
                   error, response, http, cleanup, steps>>

\* get_file(Path(output_path).name, from_output=True): "if not file_path.exists()"
GetFileCheck(r) ==
    /\ pc[r] = "get_file"
    /\ IF ~HasFile(outputDir, job[r].output_name)
       THEN /\ RaiseInJob(r, NotFoundError(<<"File not found: ">> \o job[r].output_name,
                                           [file_name |-> job[r].output_name,
                                            directory |-> "output_dir"]))
            /\ Log(r, "read", FALSE)
       ELSE /\ pc' = [pc EXCEPT ![r] = "read_bytes"]
            /\ UNCHANGED <<error, steps>>
    /\ UNCHANGED <<timeVars, binary, deleteLog, settings, verified, spawns, fsVars, nextUuid, upload, saved, validation, job, proc, tool,
                   result, response, http, cleanup>>

\* the response of a completed job
SingleImageResponse(j, processed_content, original_filename) ==
    [status |-> j.status, job_id |-> j.job_id,
     processed_image_base64 |-> B64Encode(processed_content),
     original_filename |-> original_filename, output_filename |-> j.output_name,
     watermark_size |-> j.watermark_size]

\* file_path.read_bytes() in the executor, base64.b64encode, SingleImageResponse
GetFileRead(r) ==
    /\ pc[r] = "read_bytes"
    /\ IF ~HasFile(outputDir, job[r].output_name)
       THEN /\ RaiseInJob(r, BuiltinError("builtins.FileNotFoundError", "[Errno 2] output_path"))
            /\ Log(r, "read", FALSE)
            /\ UNCHANGED response
       ELSE /\ response' = [response EXCEPT ![r] =
                             SingleImageResponse(job[r], FileContent(outputDir, job[r].output_name),
                                                 upload[r].filename)]
            /\ pc' = [pc EXCEPT ![r] = "schedule_cleanup"]
            /\ steps' = [steps EXCEPT ![r] = @ \o <<[step |-> "read", ok |-> TRUE],
                                                    [step |-> "respond", ok |-> TRUE]>>]
            /\ UNCHANGED error
    /\ UNCHANGED <<timeVars, binary, deleteLog, settings, verified, spawns, fsVars, nextUuid, upload, saved, validation, job, proc, tool,
                   result, http, cleanup>>

\* variant: the job is marked failed and the cause is raised again as it is
JobFailed_reraise(r) ==
    /\ pc[r] = "job_failed"
    /\ job' = [job EXCEPT ![r].status = "failed", ![r].error_message = Str(error[r])]
    /\ Raise(r, error[r])
    /\ UNCHANGED <<timeVars, binary, deleteLog, settings, verified, spawns, fsVars, nextUuid, upload, saved,
                   validation, proc, tool, result, response, http, cleanup, steps>>

\* variant: a first failure of the tool run is answered by running execute again
JobFailed_retry(r) ==
    /\ pc[r] = "job_failed"
    /\ IF spawns[r].calls = 1 /\ spawns[r].attempts = 1
       THEN /\ pc' = [pc EXCEPT ![r] = "exec_check"]
            /\ error' = [error EXCEPT ![r] = NoError]
            /\ UNCHANGED job
       ELSE /\ job' = [job EXCEPT ![r].status = "failed", ![r].error_message = Str(error[r])]
            /\ Raise(r, ProcessingError(<<"Failed to process image: ">> \o Str(error[r]),
                                        [job_id |-> job[r].job_id, error |-> Str(error[r])]))
    /\ UNCHANGED <<timeVars, binary, deleteLog, settings, verified, spawns, fsVars, nextUuid, upload, saved,
                   validation, proc, tool, result, response, http, cleanup, steps>>

\* variant: the except block removes the upload file of the failed job
JobFailed_unlink(r) ==
    /\ pc[r] = "job_failed"
    /\ job' = [job EXCEPT ![r].status = "failed", ![r].error_message = Str(error[r])]
    /\ Raise(r, ProcessingError(<<"Failed to process image: ">> \o Str(error[r]),
                                [job_id |-> job[r].job_id, error |-> Str(error[r])]))
    /\ uploadDir' = RemoveFile(uploadDir, saved[r].filename)
    /\ UNCHANGED <<timeVars, binary, deleteLog, settings, verified, spawns, outputDir, nextUuid, upload, saved,
                   validation, proc, tool, result, response, http, cleanup, steps>>

\* variant: the NotFound error of get_file passes the except block unwrapped
JobFailed_notfound(r) ==
    /\ pc[r] = "job_failed"
    /\ job' = [job EXCEPT ![r].status = "failed", ![r].error_message = Str(error[r])]
    /\ IF error[r].type = "FileNotFoundError"
       THEN Raise(r, error[r])
       ELSE Raise(r, ProcessingError(<<"Failed to process image: ">> \o Str(error[r]),
                                     [job_id |-> job[r].job_id, error |-> Str(error[r])]))
    /\ UNCHANGED <<timeVars, binary, deleteLog, settings, verified, spawns, fsVars, nextUuid, upload, saved,
                   validation, proc, tool, result, response, http, cleanup, steps>>

\* the except block: job.status = FAILED, error_message, raise ProcessingError
JobFailed(r) ==
    /\ pc[r] = "job_failed"
    /\ job' = [job EXCEPT ![r].status = "failed", ![r].error_message = Str(error[r])]
    /\ Raise(r, ProcessingError(<<"Failed to process image: ">> \o Str(error[r]),
                                [job_id |-> job[r].job_id, error |-> Str(error[r])]))
    /\ UNCHANGED <<timeVars, binary, deleteLog, settings, verified, spawns, fsVars, nextUuid, upload, saved, validation, proc, tool, result,
                   response, http, cleanup, steps>>

(***************************************************************************)
(* The end of the request: remove_watermark returns (api/routes.py), or an *)
(* exception handler answers (main.py); then the background task.          *)
(***************************************************************************)
\* background_tasks.add_task(_cleanup_files, response.output_filename); return response
ScheduleCleanup(r) ==
    /\ pc[r] = "schedule_cleanup"
    /\ cleanup' = [cleanup EXCEPT ![r] = "scheduled"]
    /\ http' = [http EXCEPT ![r] = [NoHttp EXCEPT !.status_code = 200]]
    /\ pc' = [pc EXCEPT ![r] = "done"]
    /\ UNCHANGED <<timeVars, binary, deleteLog, settings, verified, spawns, fsVars, nextUuid, upload, saved, validation, job, proc, tool,
                   result, error, response, steps>>

\* status code of the answer to an exception: app_exception_handler for an
\* AppException, general_exception_handler for anything else
HandlerStatus(e) == IF IsAppException(e) THEN e.status_code ELSE 500

\* variant: general_exception_handler puts the text of the exception in its answer
ExceptionHandler_leak(r) ==
    /\ pc[r] = "raise"
    /\ http' = [http EXCEPT ![r] =
                 IF IsAppException(error[r])
                 THEN [status_code |-> HandlerStatus(error[r]), error |-> error[r].type,
                       message |-> error[r].message, details |-> error[r].details]
                 ELSE [status_code |-> HandlerStatus(error[r]), error |-> "InternalServerError",
                       message |-> error[r].message, details |-> NoDetails]]
    /\ pc' = [pc EXCEPT ![r] = "done"]
    /\ UNCHANGED <<timeVars, binary, deleteLog, settings, verified, spawns, fsVars, nextUuid, upload, saved, validation, job, proc, tool,
                   result, error, response, cleanup, steps>>

\* app_exception_handler / general_exception_handler
ExceptionHandler(r) ==
    /\ pc[r] = "raise"
    /\ http' = [http EXCEPT ![r] =
                 IF IsAppException(error[r])
                 THEN [status_code |-> HandlerStatus(error[r]), error |-> error[r].type,
                       message |-> error[r].message, details |-> error[r].details]
                 ELSE [status_code |-> HandlerStatus(error[r]), error |-> "InternalServerError",
                       message |-> <<"An unexpected error occurred">>, details |-> NoDetails]]
    /\ pc' = [pc EXCEPT ![r] = "done"]
    /\ UNCHANGED <<timeVars, binary, deleteLog, settings, verified, spawns, fsVars, nextUuid, upload, saved, validation, job, proc, tool,
                   result, error, response, cleanup, steps>>

\* one call of delete_file(name, from_output=True): whether exists() found the
\* file, the exception the call ended with, the line written to the log
DeleteCall(name, existed, raised, logged) ==
    [name |-> name, existed |-> existed, raised |-> raised, logged |-> logged]

\* variant: a missing file is an error, which _cleanup_files logs
CleanupCheck_strict(r) ==
    /\ cleanup[r] = "scheduled"
    /\ pc[r] = "done"
    /\ cleanup' = [cleanup EXCEPT ![r] =
                    IF response[r].output_filename # <<>>
                       /\ HasFile(outputDir, response[r].output_filename)
                    THEN "unlink" ELSE "finished"]
    /\ deleteLog' = [deleteLog EXCEPT ![r] =
                      IF response[r].output_filename # <<>>
                         /\ ~HasFile(outputDir, response[r].output_filename)
                      THEN Append(@, DeleteCall(response[r].output_filename, FALSE,
                                                BuiltinError("builtins.FileNotFoundError", "[Errno 2] output_path"),
                                                <<"Failed to cleanup file ">> \o response[r].output_filename))
                      ELSE @]
    /\ Log(r, "cleanup", TRUE)
    /\ UNCHANGED <<timeVars, binary, settings, verified, spawns, fsVars, nextUuid, pc, upload, saved, validation,
                   job, proc, tool, result, error, response, http>>

\* _cleanup_files starts after the response is sent: delete_file(output_filename,
\* from_output=True), "if file_path.exists()"
CleanupCheck(r) ==
    /\ cleanup[r] = "scheduled"
    /\ pc[r] = "done"
    /\ cleanup' = [cleanup EXCEPT ![r] =
                    IF response[r].output_filename # <<>>
                       /\ HasFile(outputDir, response[r].output_filename)
                    THEN "unlink" ELSE "finished"]
    /\ deleteLog' = [deleteLog EXCEPT ![r] =
                      IF response[r].output_filename # <<>>
                         /\ ~HasFile(outputDir, response[r].output_filename)
                      THEN Append(@, DeleteCall(response[r].output_filename, FALSE, NoError, <<>>))
                      ELSE @]
    /\ Log(r, "cleanup", TRUE)
    /\ UNCHANGED <<timeVars, binary, settings, verified, spawns, fsVars, nextUuid, pc, upload, saved, validation, job, proc, tool,
                   result, error, response, http>>

\* variant: the exception of delete_file is not caught by _cleanup_files and
\* turns the answer into an internal error
CleanupUnlink_escalate(r) ==
    /\ cleanup[r] = "unlink"
    /\ LET name == response[r].output_filename
       IN  IF HasFile(outputDir, name)
           THEN /\ outputDir' = delete_file(outputDir, name)
                /\ deleteLog' = [deleteLog EXCEPT ![r] =
                                  Append(@, DeleteCall(name, TRUE, NoError, <<"File deleted: ">> \o name))]
                /\ UNCHANGED http
           ELSE /\ UNCHANGED outputDir
                /\ deleteLog' = [deleteLog EXCEPT ![r] =
                                  Append(@, DeleteCall(name, TRUE,
                                                       BuiltinError("builtins.FileNotFoundError", "[Errno 2] output_path"),
                                                       <<>>))]
                /\ http' = [http EXCEPT ![r] =
                             [status_code |-> 500, error |-> "InternalServerError",
                              message |-> <<"An unexpected error occurred">>, details |-> NoDetails]]
    /\ cleanup' = [cleanup EXCEPT ![r] = "finished"]
    /\ UNCHANGED <<timeVars, binary, settings, verified, spawns, uploadDir, nextUuid, pc, upload, saved, validation, job, proc,
                   tool, result, error, response, steps>>

\* file_path.unlink in the executor, then "File deleted"; unlink raises when the
\* file has gone since exists(), and _cleanup_files logs the exception
CleanupUnlink(r) ==
    /\ cleanup[r] = "unlink"
    /\ LET name == response[r].output_filename
       IN  IF HasFile(outputDir, name)
           THEN /\ outputDir' = delete_file(outputDir, name)
                /\ deleteLog' = [deleteLog EXCEPT ![r] =
                                  Append(@, DeleteCall(name, TRUE, NoError, <<"File deleted: ">> \o name))]
           ELSE /\ UNCHANGED outputDir
                /\ deleteLog' = [deleteLog EXCEPT ![r] =
                                  Append(@, DeleteCall(name, TRUE,
                                                       BuiltinError("builtins.FileNotFoundError", "[Errno 2] output_path"),
                                                       <<"Failed to cleanup file ">> \o name))]
    /\ cleanup' = [cleanup EXCEPT ![r] = "finished"]
    /\ UNCHANGED <<timeVars, binary, settings, verified, spawns, uploadDir, nextUuid, pc, upload, saved, validation, job, proc,
                   tool, result, error, response, http, steps>>

Next ==
    \E r \in Requests :
        \/ Receive(r)
        \/ RateLimited(r)
        \/ VerifyToken(r)
        \/ ReadFile(r)
        \/ SaveUpload(r)
        \/ ValidateFile(r)
        \/ CreateJob(r)
        \/ ExecCheckBinary(r)
        \/ ExecSpawn(r)
        \/ ToolExit(r)
        \/ ChildReap(r)
        \/ CommunicateReturn(r)
        \/ WaitForTimeout(r)
        \/ ExecKill(r)
        \/ ExecWait(r)
        \/ SetCompleted(r)
        \/ GetFileCheck(r)
        \/ GetFileRead(r)
        \/ JobFailed(r)
        \/ ScheduleCleanup(r)
        \/ ExceptionHandler(r)
        \/ CleanupCheck(r)
        \/ CleanupUnlink(r)

Spec == Init /\ [][Next]_vars

(***************************************************************************)
(* Requests with a valid token that upload a PNG image or an executable    *)
(* under the name a.png; the binary is executable and starts; the tool     *)
(* ends before the timeout or runs beyond it, and leaves at the output     *)
(* path r bytes for request r, or nothing.                                 *)
(***************************************************************************)
StoreUploads ==
    {[filename |-> <<"a", ".", "png">>, size |-> MaxSizeBytes, kind |-> k] : k \in {"PNG", "EXE"}}

StoreOutputs(r) == {NoOutput, [wrote |-> TRUE, bytes |-> SubSeq(<<77, 97>>, 1, r)]}

ClientStep(r) ==
    \/ Receive(r) /\ upload'[r] \in StoreUploads
    \/ VerifyToken(r) /\ pc'[r] = "read_file"
    \/ ReadFile(r)
    \/ SaveUpload(r)
    \/ ValidateFile(r) /\ validation'[r].metadata.width \in {0, 1024}
                       /\ validation'[r].metadata.height \in {0, 1024}
    \/ CreateJob(r)
    \/ ExecCheckBinary(r) /\ binary'[r] = "executable"
    \/ ExecSpawn(r) /\ proc'[r] = "running" /\ tool'[r].duration # binary_timeout_seconds
    \/ ToolExit(r) /\ tool'[r].returncode \in {<<0>>, <<1>>} /\ tool'[r].stdout = <<>>
                   /\ tool'[r].out \in StoreOutputs(r)
    \/ ChildReap(r)
    \/ CommunicateReturn(r)
    \/ WaitForTimeout(r)
    \/ ExecKill(r) /\ tool'[r].out \in StoreOutputs(r)
    \/ ExecWait(r)
    \/ SetCompleted(r)
    \/ GetFileCheck(r)
    \/ GetFileRead(r)
    \/ JobFailed(r)
    \/ ScheduleCleanup(r)
    \/ ExceptionHandler(r)
    \/ CleanupCheck(r)
    \/ CleanupUnlink(r)

(***************************************************************************)
(* Two requests at once.                                                   *)
(***************************************************************************)
Clients == {1, 2}

PairInit ==
    /\ settings = [secret_configured |-> TRUE, app_env |-> "production"]
    /\ uploadDir = {}
    /\ outputDir = {}
    /\ nextUuid = 1
    /\ pc = [r \in Clients |-> "idle"]
    /\ upload = [r \in Clients |-> NoUpload]
    /\ saved = [r \in Clients |-> NoSaved]
    /\ validation = [r \in Clients |-> NoValidation]
    /\ job = [r \in Clients |-> NoJob]
    /\ proc = [r \in Clients |-> "none"]
    /\ tool = [r \in Clients |-> NoTool]
    /\ result = [r \in Clients |-> NoResult]
    /\ error = [r \in Clients |-> NoError]
    /\ response = [r \in Clients |-> NoResponse]
    /\ http = [r \in Clients |-> NoHttp]
    /\ cleanup = [r \in Clients |-> "none"]
    /\ steps = [r \in Clients |-> <<>>]
    /\ binary = [r \in Clients |-> "unseen"]
    /\ deleteLog = [r \in Clients |-> <<>>]
    /\ verified = [r \in Clients |-> NoVerified]
    /\ spawns = [r \in Clients |-> NoSpawns]
    /\ now = 0
    /\ sweep = NoSweep

PairNext == \E r \in Clients : ClientStep(r)

PairSpec == PairInit /\ [][PairNext]_vars

(***************************************************************************)
(* One request, the clock, and cleanup_old_files called at any moment, one *)
(* call at a time.                                                         *)
(***************************************************************************)
StoreInit == Init /\ settings = [secret_configured |-> TRUE, app_env |-> "production"]

StoreNext ==
    \/ \E r \in Requests : ClientStep(r)
    \/ Tick
    \/ SweepStart
    \/ SweepList
    \/ SweepIsFile
    \/ SweepStat
    \/ SweepUnlink
    \/ SweepEndDirectory

StoreSpec == StoreInit /\ [][StoreNext]_vars

\* the event loop runs every task that can go on, the tool and the executor
\* threads make progress, time passes, and a sweep that was called runs to its
\* end; nothing calls cleanup_old_files, so no call of it is ever ensured
FairSpec ==
    /\ StoreSpec
    /\ WF_vars(\E r \in Requests : ClientStep(r))
    /\ WF_vars(Tick)
    /\ WF_vars(SweepList \/ SweepIsFile \/ SweepStat \/ SweepUnlink \/ SweepEndDirectory)

(***************************************************************************)
(* The sweep run without interference: two requests fill the directories,  *)
(* cleanup_old_files is called when both have been answered, from then on  *)
(* no request or background task moves, and every unlink succeeds.         *)
(***************************************************************************)
QuietNext ==
    \/ sweep.pc = "idle" /\ \E r \in Clients : ClientStep(r)
    \/ Tick
    \/ SweepStart /\ \A r \in Clients : pc[r] = "done"
    \/ SweepList
    \/ SweepIsFile
    \/ SweepStat
    \/ SweepUnlink /\ fsVars' # fsVars
    \/ SweepEndDirectory

QuietSpec == PairInit /\ [][QuietNext]_vars

(***************************************************************************)
(* FileValidator.validate_file called on its own, with any path, size,     *)
(* name and file content.                                                  *)
(***************************************************************************)
\* paths of the file to validate: one with an image suffix, one without suffix
PathSamples == {<<"a", ".", "png">>, <<"a">>}

CallValidateFile(r) ==
    /\ pc[r] = "idle"
    /\ \E file_path \in PathSamples, filename \in FileNames, size \in FileSizes,
          kind \in ContentKinds, width \in Dimensions, height \in Dimensions :
         LET v == validate_file(file_path, size, filename,
                                [kind |-> kind, width |-> width, height |-> height])
         IN  /\ upload' = [upload EXCEPT ![r] = [filename |-> filename, size |-> size, kind |-> kind]]
             /\ saved' = [saved EXCEPT ![r] = [filename |-> file_path, job_id |-> 0]]
             /\ validation' = [validation EXCEPT ![r] = v]
             /\ error' = [error EXCEPT ![r] = v.error]
             /\ Log(r, "validate", v.error = NoError)
    /\ pc' = [pc EXCEPT ![r] = "done"]
    /\ UNCHANGED <<timeVars, binary, deleteLog, settings, verified, spawns, fsVars, nextUuid, job, proc, tool, result,
                   response, http, cleanup>>

ValidatorNext == \E r \in Requests : CallValidateFile(r)

ValidatorSpec == Init /\ [][ValidatorNext]_vars

(***************************************************************************)
(* Properties.                                                             *)
(***************************************************************************)
RECURSIVE StepNames(_)
StepNames(log) == IF log = <<>> THEN <<>> ELSE <<Head(log).step>> \o StepNames(Tail(log))

IsPrefix(s, t) == Len(s) <= Len(t) /\ SubSeq(t, 1, Len(s)) = s

Completed(r, step) == \E i \in 1..Len(steps[r]) : steps[r][i] = [step |-> step, ok |-> TRUE]

Failed(r, step) == \E i \in 1..Len(steps[r]) : steps[r][i] = [step |-> step, ok |-> FALSE]

PipelineOrder == <<"verify", "save", "validate", "classify", "execute", "read", "respond", "cleanup">>

InPipelineOrder(name) == \E i \in 1..Len(PipelineOrder) : PipelineOrder[i] = name

\* C1: the steps of a request complete in the order verify, save, validate,
\* classify, execute, read, encode and respond, deferred deletion, and no step
\* follows a step that failed; the deletion runs only once the response is sent.
C1_StepsInOrder ==
    \A r \in Requests :
        /\ IsPrefix(SelectSeq(StepNames(steps[r]), InPipelineOrder), PipelineOrder)
        /\ \A i \in 1..(Len(steps[r]) - 1) : steps[r][i].ok
        /\ Completed(r, "cleanup") => http[r].status_code = 200

C1_Witness ==
    \E r \in Requests :
        /\ SelectSeq(StepNames(steps[r]), InPipelineOrder) = PipelineOrder
        /\ cleanup[r] = "finished"

\* C2: a request whose token verification failed has written no file to the
\* upload directory, has no job and no subprocess, and a verification error is
\* answered with status 403.
C2_NoFileBeforeVerification ==
    \A r \in Requests :
        Failed(r, "verify") =>
            /\ saved[r] = NoSaved
            /\ uploadDir = {}
            /\ job[r] = NoJob
            /\ proc[r] = "none"
            /\ (pc[r] = "done" /\ error[r].type = "TurnstileError") => http[r].status_code = 403

C2_Witness ==
    \E r \in Requests :
        /\ Failed(r, "verify")
        /\ pc[r] = "done"
        /\ http[r].status_code = 403
        /\ upload[r].filename = <<"a", ".", "png">>

\* C3: an upload longer than max_file_size_mb * 1024 * 1024 bytes is never
\* saved and never reaches the tool, and is answered with a validation error
\* (400) once the size check is reached; an upload of exactly that length
\* passes the size checks.
C3_OversizeRejected ==
    \A r \in Requests :
        /\ upload[r].size > 10 * 1024 * 1024 =>
              /\ proc[r] = "none"
              /\ job[r] = NoJob
              /\ saved[r] = NoSaved
              /\ ~Completed(r, "size")
              /\ (Completed(r, "verify") /\ pc[r] \in {"raise", "done"}) =>
                    /\ error[r].type = "ValidationError"
                    /\ Failed(r, "size")
              /\ (Completed(r, "verify") /\ pc[r] = "done") => http[r].status_code = 400
        /\ upload[r].size = 10 * 1024 * 1024 =>
              /\ ~Failed(r, "size")
              /\ validation[r].checks # <<"size">>

C3_Witness ==
    \E r \in Requests :
        /\ upload[r].size = 10 * 1024 * 1024 + 1
        /\ pc[r] = "done"
        /\ http[r].status_code = 400
        /\ http[r].error = "ValidationError"

\* the extension a filename has for the allow-list: what follows its last dot,
\* lowercased, when that dot is neither the first nor the last character
NamedExtension(filename) ==
    IF \E i \in 2..(Len(filename) - 1) :
            filename[i] = "." /\ \A j \in (i + 1)..Len(filename) : filename[j] # "."
    THEN LET i == CHOOSE i \in 2..(Len(filename) - 1) :
                      filename[i] = "." /\ \A j \in (i + 1)..Len(filename) : filename[j] # "."
         IN  [j \in 1..(Len(filename) - i) |->
                IF filename[i + j] = "PNG" THEN "png" ELSE filename[i + j]]
    ELSE <<>>

\* C4: for a filename whose lowercased extension is not png, jpg, jpeg or webp,
\* or that has none, validate_file raises a ValidationError whatever the
\* content, and no job and no subprocess exist for the request.
C4_ExtensionOutsideAllowList ==
    \A r \in Requests :
        NamedExtension(upload[r].filename) \notin {<<"png">>, <<"jpg">>, <<"jpeg">>, <<"webp">>} =>
            /\ proc[r] = "none"
            /\ job[r] = NoJob
            /\ ~Completed(r, "validate")
            /\ validation[r].checks # <<>> =>
                  /\ validation[r].error.type = "ValidationError"
                  /\ validation[r].error.status_code = 400
                  /\ "decode" \notin {validation[r].checks[i] : i \in 1..Len(validation[r].checks)}

C4_Witness ==
    \E r \in Requests :
        /\ upload[r].filename = <<"a", ".", "gif">>
        /\ upload[r].kind = "PNG"
        /\ validation[r].error.type = "ValidationError"
        /\ validation[r].error.details.received_extension = <<"gif">>
        /\ pc[r] = "done"

\* C5: an executable uploaded under a name ending in .png is rejected by the
\* extension or MIME check, and Image.open is never called on it.
C5_RenamedExeNotDecoded ==
    \A r \in Requests :
        (upload[r].kind = "EXE" /\ NamedExtension(upload[r].filename) = <<"png">>) =>
            "decode" \notin {validation[r].checks[i] : i \in 1..Len(validation[r].checks)}

\* base64 text back to bytes
RECURSIVE B64Decode(_)
B64Decode(text) ==
    IF Len(text) < 4 THEN <<>>
    ELSE (IF text[3] = 64 THEN <<text[1] * 4 + text[2] \div 16>>
          ELSE IF text[4] = 64
          THEN <<text[1] * 4 + text[2] \div 16, (text[2] % 16) * 16 + text[3] \div 4>>
          ELSE <<text[1] * 4 + text[2] \div 16, (text[2] % 16) * 16 + text[3] \div 4,
                 (text[3] % 4) * 64 + text[4]>>)
         \o B64Decode(SubSeq(text, 5, Len(text)))

\* C6 as stated: whenever the tool exits with code 0, the job ends completed
\* and the request is answered with a completed response.
C6_ExitZeroAlwaysCompleted ==
    \A r \in Requests :
        (result[r].exit_code = <<0>> /\ pc[r] = "done") =>
            /\ job[r].status = "completed"
            /\ response[r].status = "completed"
            /\ http[r].status_code = 200

\* C6: when the tool exits with code 0 and has left a file at the output path,
\* the job ends completed and the request is answered 200 with status
\* completed and the base64 of that file; when it exits with code 0 and has
\* left no file, the job ends failed and the request is answered 500 with no
\* response body.
C6_ExitZeroCompletedIfOutput ==
    \A r \in Requests :
        (result[r].exit_code = <<0>> /\ pc[r] = "done") =>
            IF tool[r].out.wrote
            THEN /\ job[r].status = "completed"
                 /\ job[r].exit_code = <<0>>
                 /\ response[r].status = "completed"
                 /\ B64Decode(response[r].processed_image_base64) = tool[r].out.bytes
                 /\ Len(response[r].processed_image_base64) = 4 * ((Len(tool[r].out.bytes) + 2) \div 3)
                 /\ response[r].output_filename = saved[r].filename
                 /\ http[r].status_code = 200
            ELSE /\ job[r].status = "failed"
                 /\ response[r] = NoResponse
                 /\ http[r].status_code = 500

C6_Witness ==
    \E r \in Requests :
        /\ result[r].exit_code = <<0>>
        /\ pc[r] = "done"
        /\ tool[r].out = [wrote |-> TRUE, bytes |-> <<77, 97>>]
        /\ response[r].processed_image_base64 = <<19, 22, 4, 64>>
        /\ http[r].status_code = 200

\* C7: when the tool exits with a nonzero code, execute raises an error that
\* carries the exit code and the decoded stderr and stdout, the job becomes
\* failed, and the request is answered without a response body.
C7_NonzeroExitFails ==
    \A r \in Requests :
        (result[r].exit_code # <<>> /\ result[r].exit_code # <<0>>) =>
            /\ pc[r] \in {"job_failed", "raise", "done"}
            /\ pc[r] = "job_failed" =>
                  /\ error[r].type = "BinaryExecutionError"
                  /\ error[r].details.exit_code = tool[r].returncode[1]
                  /\ error[r].details.exit_code # 0
                  /\ Len(error[r].details.stderr) = Len(tool[r].stderr)
                  /\ Len(error[r].details.stdout) = Len(tool[r].stdout)
                  /\ \A i \in 1..Len(tool[r].stderr) :
                        error[r].details.stderr[i] =
                            IF tool[r].stderr[i] = "xFF" THEN "uFFFD" ELSE tool[r].stderr[i]
                  /\ \A i \in 1..Len(tool[r].stdout) : error[r].details.stdout[i] = tool[r].stdout[i]
            /\ pc[r] \in {"raise", "done"} => job[r].status = "failed"
            /\ response[r] = NoResponse
            /\ pc[r] = "done" => http[r].status_code # 200

C7_Witness ==
    \E r \in Requests :
        /\ result[r].exit_code = <<1>>
        /\ result[r].stderr = <<"e", "uFFFD">>
        /\ job[r].status = "failed"
        /\ pc[r] = "done"
        /\ http[r].status_code = 500

\* C8: once the status of a job is completed or failed it never changes.
C8_TerminalStatusStable ==
    [][\A r \in Requests :
          job[r].status \in {"completed", "failed"} => job'[r].status = job[r].status]_vars

TimeoutText == "Binary execution timed out after "

\* execute has raised its timeout error for request r
TimedOut(r) ==
    \/ pc[r] = "job_failed" /\ error[r].type = "BinaryExecutionError"
                            /\ Head(error[r].message) = TimeoutText
    \/ job[r].error_message # <<>> /\ Head(job[r].error_message) = TimeoutText

\* C9: once execute has raised the timeout error the subprocess is reaped,
\* neither running nor a zombie; and a tool that runs longer than the 30
\* seconds of the timeout makes execute raise that error.
C9_TimeoutLeavesNoProcess ==
    \A r \in Requests :
        /\ TimedOut(r) => proc[r] = "reaped"
        /\ (tool[r].duration > 30 /\ pc[r] \in {"job_failed", "raise", "done"}) => TimedOut(r)

C9_Witness ==
    \E r \in Requests :
        /\ tool[r].duration = 31
        /\ pc[r] = "job_failed"
        /\ TimedOut(r)
        /\ proc[r] = "reaped"

\* C10: a request whose tool execution timed out is answered with status 504.
C10_TimeoutAnswered504 ==
    \A r \in Requests :
        (TimedOut(r) /\ pc[r] = "done") => http[r].status_code = 504

NonzeroExitText == "Binary execution failed with exit code "

\* C11: when the binary is missing at the call of execute, execute raises
\* without spawning a process, and what it raises ("Binary not found at", with
\* the path in its details) differs from the error of a nonzero exit code in
\* its message and in the keys of its details.
C11_MissingBinaryNotSpawned ==
    \A r \in Requests :
        binary[r] = "absent" =>
            /\ pc[r] \in {"job_failed", "raise", "done"}
            /\ proc[r] = "none"
            /\ tool[r] = NoTool
            /\ result[r] = NoResult
            /\ pc[r] = "job_failed" =>
                  /\ error[r].type = "BinaryExecutionError"
                  /\ Head(error[r].message) = "Binary not found at "
                  /\ Head(error[r].message) # NonzeroExitText
                  /\ DOMAIN error[r].details = {"binary_path"}
                  /\ "exit_code" \notin DOMAIN error[r].details
            /\ pc[r] \in {"raise", "done"} =>
                  /\ Head(job[r].error_message) = "Binary not found at "
                  /\ Head(job[r].error_message) # NonzeroExitText

C11_Witness ==
    \E r \in Requests :
        /\ binary[r] = "absent"
        /\ pc[r] = "job_failed"
        /\ error[r].type = "BinaryExecutionError"

\* C12: when the binary is there without execute permission, execute raises
\* the error of a missing binary before any attempt to spawn.
C12_NotExecutableFailsFast ==
    \A r \in Requests :
        binary[r] = "not_executable" =>
            /\ pc[r] \in {"job_failed", "raise", "done"}
            /\ pc[r] = "job_failed" => error[r] = BinaryNotFound

\* create_subprocess_exec has failed for request r: the existence check had
\* passed, no child was started, and execute has ended with an exception
SpawnFailed(r) ==
    /\ pc[r] = "job_failed"
    /\ binary[r] \in {"not_executable", "executable"}
    /\ proc[r] = "none"

\* C13: when spawning fails after the existence check has passed, what leaves
\* execute is its own error "Failed to execute binary", which is neither the
\* timeout error nor the nonzero-exit error, and nothing of another type.
C13_SpawnFailureIsExecutionError ==
    \A r \in Requests :
        SpawnFailed(r) =>
            /\ error[r].type = "BinaryExecutionError"
            /\ Head(error[r].message) = "Failed to execute binary: "

\* what str(e) of the exception that ended execute can be, read off what
\* happened to the binary and to the child
CauseTexts(r) ==
    IF binary[r] = "absent" THEN {<<"Binary not found at ", "binary_path">>}
    ELSE IF proc[r] = "none"
         THEN {<<"[Errno] binary_path">>, <<"Failed to execute binary: ", "[Errno] binary_path">>}
    ELSE IF result[r].exit_code # <<>>
         THEN {<<NonzeroExitText, ToString(tool[r].returncode[1])>>}
    ELSE {<<TimeoutText, ToString(binary_timeout_seconds), " seconds">>, <<"">>}

\* C14: when the invocation of the tool fails (missing binary, spawn failure,
\* timeout, nonzero exit), the job is set to failed with the message of the
\* cause, and a ProcessingError is raised whose message ends with that message
\* and whose details carry the job id of the request; the client is answered
\* 500 with those details.
C14_ToolFailureWrapped ==
    \A r \in Requests :
        (Failed(r, "execute") /\ pc[r] \in {"raise", "done"}) =>
            /\ job[r].status = "failed"
            /\ job[r].error_message \in CauseTexts(r)
            /\ job[r].job_id = saved[r].job_id
            /\ error[r] = ProcessingError(<<"Failed to process image: ">> \o job[r].error_message,
                                          [job_id |-> saved[r].job_id,
                                           error |-> job[r].error_message])
            /\ response[r] = NoResponse
            /\ pc[r] = "done" =>
                  /\ http[r].status_code = 500
                  /\ http[r].error = "ProcessingError"
                  /\ http[r].details.job_id = saved[r].job_id

C14_Witness ==
    \E r \in Requests :
        /\ Failed(r, "execute")
        /\ pc[r] = "raise"
        /\ binary[r] = "executable"
        /\ proc[r] = "none"
        /\ job[r].status = "failed"
        /\ job[r].error_message = <<"[Errno] binary_path">>
        /\ error[r].type = "ProcessingError"

\* C15: when validation of the file fails, no job exists, the binary is not
\* looked at and no process is spawned, and the ValidationError raised by the
\* validator is what the caller gets: the client is answered 400 with its
\* message and details.
C15_ValidationFailureUnwrapped ==
    \A r \in Requests :
        (Failed(r, "validate") \/ Failed(r, "metadata")) =>
            /\ pc[r] \in {"raise", "done"}
            /\ job[r] = NoJob
            /\ binary[r] = "unseen"
            /\ proc[r] = "none"
            /\ error[r].type = "ValidationError"
            /\ Failed(r, "validate") => error[r] = validation[r].error
            /\ pc[r] = "done" =>
                  /\ http[r].status_code = 400
                  /\ http[r].error = "ValidationError"
                  /\ http[r].message = error[r].message
                  /\ http[r].details = error[r].details

C15_Witness ==
    \E r \in Requests :
        /\ Failed(r, "validate")
        /\ pc[r] = "done"
        /\ validation[r].error.type = "ValidationError"
        /\ HasFile(uploadDir, saved[r].filename)
        /\ job[r] = NoJob

\* C16: a request's unique name is new when save_upload writes it: no file of
\* that name is in the upload or the output directory and no other request
\* has it; a file that appears at an output path was written by the tool of
\* the one request whose name it bears, and a response carries the bytes that
\* request's own tool wrote.
C16_PathsNeverShared ==
    [][/\ \A r \in Clients :
            (saved[r] = NoSaved /\ saved'[r] # NoSaved) =>
                /\ ~HasFile(uploadDir, saved'[r].filename)
                /\ ~HasFile(outputDir, saved'[r].filename)
                /\ HasFile(uploadDir', saved'[r].filename)
                /\ \A q \in Clients \ {r} : saved'[q].filename # saved'[r].filename
       /\ \A f \in outputDir' \ outputDir :
            \E r \in Clients :
                /\ saved[r].filename = f.name
                /\ proc[r] = "running"
                /\ f.content = tool'[r].out.bytes
                /\ \A q \in Clients \ {r} : saved[q].filename # f.name
       /\ \A r \in Clients :
            (response[r] = NoResponse /\ response'[r] # NoResponse) =>
                /\ response'[r].output_filename = saved[r].filename
                /\ B64Decode(response'[r].processed_image_base64) = tool[r].out.bytes
      ]_vars

C16_Witness ==
    /\ \A r \in Clients : pc[r] = "done" /\ http[r].status_code = 200
    /\ upload[1] = upload[2]
    /\ saved[1].filename # saved[2].filename
    /\ B64Decode(response[1].processed_image_base64) = <<77>>
    /\ B64Decode(response[2].processed_image_base64) = <<77, 97>>
    /\ Cardinality(uploadDir) = 2

\* request r is in flight: its upload is saved and it has not been answered
InFlight(r) == saved[r] # NoSaved /\ pc[r] # "done"

\* C17: every file the sweep removes has a modification time strictly before
\* now minus the retention, and is neither the upload nor the output of a
\* request in flight.
C17_SweepSparesInFlight ==
    [][sweep'.deleted_count # sweep.deleted_count =>
          \A f \in (uploadDir \ uploadDir') \cup (outputDir \ outputDir') :
              /\ f.mtime < now - ephemeral_retention_hours
              /\ \A r \in Requests : InFlight(r) => f.name # saved[r].filename
      ]_vars

\* C18: the sweep never ends by raising: whatever happens to a single file, it
\* goes on to the end of both directories and returns its counts.
C18_SweepNeverRaises ==
    sweep.pc # "raised"

\* a step in which delete_file returns for a name that exists() did not find
DeleteOfMissing(r) ==
    /\ Len(deleteLog'[r]) = Len(deleteLog[r]) + 1
    /\ ~deleteLog'[r][Len(deleteLog'[r])].existed

\* deleting a name a second time, with nothing in between, changes nothing more
DeleteTwiceIsOnce(dir, name) ==
    /\ delete_file(delete_file(dir, name), name) = delete_file(dir, name)
    /\ ~HasFile(delete_file(dir, name), name)
    /\ \A f \in dir : f.name # name => f \in delete_file(dir, name)

C20_FilesEventuallyDeleted ==
    \A r \in Requests :
        (saved[r] # NoSaved) ~>
            (/\ ~HasFile(uploadDir, saved[r].filename)
             /\ ~HasFile(outputDir, saved[r].filename))

\* verify_token of request r has run
Verified(r) == Completed(r, "verify") \/ Failed(r, "verify")

NotConfigured ==
    TurnstileError(<<"Turnstile verification not configured">>, [error |-> "missing_secret_key"])

\* C23: when no verification secret is configured, verify_token makes no call
\* to the provider; in development run mode it returns success with the
\* bypass flag, and in any other run mode it fails with the "not configured"
\* error, so that no request gets past verification: nothing is saved and no
\* job is created.
C23_NoSecretNoCall ==
    ~settings.secret_configured =>
        \A r \in Requests :
            /\ ~verified[r].called
            /\ verified[r].answer = NoAnswer
            /\ Verified(r) /\ settings.app_env = "development" =>
                   /\ Completed(r, "verify")
                   /\ verified[r].result = [success |-> TRUE, bypass |-> TRUE]
            /\ settings.app_env # "development" =>
                   /\ ~Completed(r, "verify")
                   /\ verified[r].result = NoVerifyResult
                   /\ saved[r] = NoSaved /\ job[r] = NoJob /\ proc[r] = "none"
                   /\ uploadDir = {} /\ outputDir = {}
                   /\ Verified(r) => error[r] = NotConfigured
                   /\ Verified(r) /\ pc[r] = "done" =>
                          /\ http[r].status_code = 403
                          /\ http[r].details = [error |-> "missing_secret_key"]

\* a request met the missing secret outside development and was answered
C23_Witness ==
    \E r \in Requests :
        /\ ~settings.secret_configured /\ settings.app_env = "production"
        /\ Failed(r, "verify") /\ pc[r] = "done"
        /\ error[r] = NotConfigured /\ ~verified[r].called

\* the codes of the fixed code-to-message table
TableCodes == {"missing-input-secret", "invalid-input-secret", "missing-input-response",
               "invalid-input-response", "bad-request", "timeout-or-duplicate"}

\* the message of the first code of the list that the table holds
FirstTableMessage(codes) ==
    LET known == {i \in 1..Len(codes) : codes[i] \in TableCodes}
    IN  IF known = {} THEN "Verification failed"
        ELSE ErrorMessageOf(codes[CHOOSE i \in known : \A j \in known : i <= j])

\* C24: when the provider answers with a failure, verify_token raises the
\* verification error whose details carry the provider's error codes
\* unchanged and the message of the first code of the list that the table
\* holds, "Verification failed" when it holds none of them.
C24_FailureDetails ==
    \A r \in Requests :
        verified[r].called /\ verified[r].answer.kind = "failure" =>
            /\ Failed(r, "verify")
            /\ error[r].type = "TurnstileError"
            /\ error[r].message = <<"Turnstile verification failed">>
            /\ error[r].details.error_codes = verified[r].answer.error_codes
            /\ error[r].details.message = FirstTableMessage(verified[r].answer.error_codes)

\* the provider named two codes of the table, with different messages
C24_Witness ==
    \E r \in Requests :
        /\ verified[r].called /\ verified[r].answer.kind = "failure"
        /\ verified[r].answer.error_codes = <<"bad-request", "missing-input-response">>
        /\ error[r].details.message = "Invalid verification request"
        /\ http[r].status_code = 403

\* the deferred deletion of request r failed: a call of delete_file raised
CleanupFailed(r) == \E i \in 1..Len(deleteLog[r]) : deleteLog[r][i].raised # NoError

\* C21: a failure of the deferred deletion of the output file never changes
\* the outcome of the request: the deletion is scheduled only once the
\* response is built, from then on the response and the answer to the client
\* stay as they are (the successful response, status 200), and an exception of
\* the deletion is logged by the task and goes no further.
C21_CleanupNeverEscalates ==
    [][\A r \in Requests :
          cleanup'[r] # "none" =>
              /\ response'[r] # NoResponse /\ response'[r].status = "completed"
              /\ http'[r] = [NoHttp EXCEPT !.status_code = 200]
              /\ error'[r] = NoError /\ pc'[r] = "done"
              /\ cleanup[r] # "none" => response'[r] = response[r] /\ http'[r] = http[r]
              /\ \A i \in 1..Len(deleteLog'[r]) :
                     deleteLog'[r][i].raised # NoError =>
                         deleteLog'[r][i].logged =
                             <<"Failed to cleanup file ">> \o response'[r].output_filename]_vars

\* the deletion failed after the client was answered, and the task ended
C21_Witness ==
    \E r \in Requests :
        /\ cleanup[r] = "finished" /\ CleanupFailed(r)
        /\ http[r].status_code = 200 /\ response[r].status = "completed"

\* C22: the watermark-size class of an image is small_48x48 exactly when its
\* width or its height is at most 1024, and large_96x96 exactly when both
\* sides are at least 1025; the job and the response carry this class.
C22_WatermarkSizeClass ==
    \A r \in Requests :
        LET m == validation[r].metadata
            small == m.width <= 1024 \/ m.height <= 1024
            large == m.width >= 1025 /\ m.height >= 1025
        IN  /\ job[r] # NoJob =>
                  /\ job[r].watermark_size = "small_48x48" <=> small
                  /\ job[r].watermark_size = "large_96x96" <=> large
            /\ response[r] # NoResponse =>
                  /\ response[r].watermark_size = "small_48x48" <=> small
                  /\ response[r].watermark_size = "large_96x96" <=> large

\* an image 1024 wide and 1025 high was answered as small
C22_Witness ==
    \E r \in Requests :
        /\ validation[r].metadata.width = 1024 /\ validation[r].metadata.height = 1025
        /\ response[r].watermark_size = "small_48x48"
        /\ http[r].status_code = 200

\* the HTTP status of each entry of the error taxonomy
TaxonomyStatus(type) ==
    CASE type = "ValidationError" -> {400}
      [] type = "TurnstileError" -> {401, 403}
      [] type = "ProcessingError" -> {500}
      [] type = "BinaryExecutionError" -> {500}
      [] type = "FileNotFoundError" -> {404}
      [] OTHER -> {}

DomainErrors == {"ValidationError", "TurnstileError", "ProcessingError", "BinaryExecutionError",
                 "FileNotFoundError"}

C26_GetFileOnlyNotFound ==
    \A r \in Requests :
        /\ pc[r] = "job_failed" /\ Failed(r, "read") =>
              /\ error[r].type = "FileNotFoundError"
              /\ error[r].status_code = 404
        /\ pc[r] = "schedule_cleanup" =>
              /\ tool[r].out.wrote
              /\ response[r].processed_image_base64 = B64Encode(tool[r].out.bytes)

CheckOrder == <<"size", "extension", "mime", "decode">>

\* the outcome of one check of validate_file on the arguments of request r
CheckError(r, check) ==
    CASE check = "size" -> validate_file_size(upload[r].size)
      [] check = "extension" -> validate_file_extension(upload[r].filename)
      [] check = "mime" -> validate_mime_type(saved[r].filename)
      [] OTHER -> validate_image_format([kind |-> upload[r].kind, width |-> 0, height |-> 0])

\* C27: validate_file evaluates its checks in the order size, extension, MIME
\* type, decode and stops at the first that fails: the checks evaluated are a
\* prefix of that order, all but the last of them passed, a check after a
\* failing one is never evaluated, and the error reported is that of the
\* earliest failing check.
C27_ValidateFileOrder ==
    \A r \in Requests :
        validation[r].checks # <<>> =>
            LET c == validation[r].checks
                n == Len(c)
            IN  /\ IsPrefix(c, CheckOrder)
                /\ \A i \in 1..(n - 1) : CheckError(r, c[i]) = NoError
                /\ validation[r].error = CheckError(r, c[n])
                /\ n < Len(CheckOrder) => validation[r].error # NoError
                /\ \A i \in 1..Len(CheckOrder) :
                       /\ CheckError(r, CheckOrder[i]) # NoError
                       /\ \A j \in 1..(i - 1) : CheckError(r, CheckOrder[j]) = NoError
                       => n = i /\ validation[r].error = CheckError(r, CheckOrder[i])

\* a file fails the size, the extension, the MIME and the decode check, and the
\* size error is the one reported
C27_Witness ==
    \E r \in Requests :
        /\ validation[r].checks = <<"size">>
        /\ \A i \in 1..Len(CheckOrder) : CheckError(r, CheckOrder[i]) # NoError
        /\ error[r] = validate_file_size(upload[r].size)
        /\ pc[r] = "done"

\* C28: the external tool is spawned at most once per call of execute and at
\* most once per request, whatever the outcome: execute is called once, it
\* calls create_subprocess_exec at most once, and a request that has failed
\* or timed out has still made a single attempt.
C28_SpawnedAtMostOnce ==
    \A r \in Requests :
        /\ spawns[r].calls <= 1
        /\ spawns[r].attempts <= spawns[r].calls
        /\ proc[r] # "none" => spawns[r].attempts = 1

\* a request whose tool run timed out was answered after a single attempt
C28_Witness ==
    \E r \in Requests :
        /\ pc[r] = "done" /\ TimedOut(r)
        /\ job[r].status = "failed" /\ spawns[r].attempts = 1

\* the files of a directory that are strictly older than a cutoff
OlderThan(dir, cutoff) == {f \in dir : f.mtime < cutoff}

\* C29: a run of cleanup_old_files that nothing interferes with returns with
\* exactly the files strictly older than now minus the retention period
\* removed from the upload and the output directory, every other file as it
\* was, and per-directory counts equal to the number of files removed.
C29_SweepDeletesExactlyOld ==
    [][sweep.pc # "returned" /\ sweep'.pc = "returned" =>
          /\ sweep'.cutoff_time + ephemeral_retention_hours <= now'
          /\ uploadDir' = sweep'.before.uploads \ OlderThan(sweep'.before.uploads, sweep'.cutoff_time)
          /\ outputDir' = sweep'.before.outputs \ OlderThan(sweep'.before.outputs, sweep'.cutoff_time)
          /\ sweep'.deleted_count.uploads = Cardinality(sweep'.before.uploads \ uploadDir')
          /\ sweep'.deleted_count.outputs = Cardinality(sweep'.before.outputs \ outputDir')]_vars

\* a sweep has returned having removed one of two uploads and kept the other,
\* which is exactly as old as the cutoff
C29_Witness ==
    /\ sweep.pc = "returned"
    /\ Cardinality(sweep.before.uploads) = 2
    /\ sweep.deleted_count.uploads = 1
    /\ \E f \in uploadDir : f \in sweep.before.uploads /\ f.mtime = sweep.cutoff_time

\* C30: delete_file raises under no interleaving with cleanup_old_files: when
\* the sweep removes the file between the existence check of delete_file and
\* its unlink, the call still ends normally.
C30_DeleteNeverRaises ==
    \A r \in Requests :
        \A i \in 1..Len(deleteLog[r]) : deleteLog[r][i].raised = NoError

\* C31: the cleanup after a successful response deletes only the output file
\* named in that request's response, from the output directory: a step of the
\* cleanup task of request r leaves the upload directory as it is, its own
\* upload included, removes from the output directory nothing but the file
\* of that name, and leaves every file of every other request unchanged.
C31_CleanupDeletesOnlyOwnOutput ==
    [][\A r \in Clients :
          cleanup[r] \in {"scheduled", "unlink"} /\ cleanup'[r] # cleanup[r] =>
              /\ response[r].output_filename = saved[r].filename
              /\ uploadDir' = uploadDir
              /\ HasFile(uploadDir, saved[r].filename) => HasFile(uploadDir', saved[r].filename)
              /\ outputDir' \subseteq outputDir
              /\ \A f \in outputDir \ outputDir' : f.name = response[r].output_filename
              /\ \A q \in Clients \ {r} :
                     /\ \A f \in uploadDir : f.name = saved[q].filename => f \in uploadDir'
                     /\ \A f \in outputDir : f.name = saved[q].filename => f \in outputDir'
              /\ cleanup[r] = "unlink" => ~HasFile(outputDir', response[r].output_filename)
      ]_vars

\* the cleanup of request 1 has deleted its output file; its upload and the
\* output file of request 2 are still there
C31_Witness ==
    /\ cleanup[1] = "finished"
    /\ \E i \in 1..Len(deleteLog[1]) :
           deleteLog[1][i].logged = <<"File deleted: ">> \o response[1].output_filename
    /\ ~HasFile(outputDir, response[1].output_filename)
    /\ HasFile(uploadDir, saved[1].filename)
    /\ response[2] # NoResponse /\ HasFile(outputDir, response[2].output_filename)

\* process_single_image of request r has raised, or is about to in its except block
ServiceRaised(r) == saved[r] # NoSaved /\ error[r] # NoError

\* C32: when process_single_image raises, for a validation failure or for
\* any failure after the job was created, the request deletes nothing and
\* schedules no cleanup: from the raise on no file leaves either directory,
\* no delete_file is called, the upload file the request saved is on disk,
\* and so is an output file the tool wrote, with the bytes the tool wrote.
C32_FailureDeletesNothing ==
    [][\A r \in Requests :
          ServiceRaised(r)' =>
              /\ cleanup'[r] = "none" /\ deleteLog'[r] = <<>>
              /\ response'[r] = NoResponse
              /\ uploadDir \subseteq uploadDir'
              /\ outputDir \subseteq outputDir'
              /\ HasFile(uploadDir', saved'[r].filename)
              /\ tool'[r].out.wrote =>
                     /\ HasFile(outputDir', job'[r].output_name)
                     /\ FileContent(outputDir', job'[r].output_name) = tool'[r].out.bytes
      ]_vars

\* the tool wrote an output file and exited nonzero; the request was answered
\* 500 and both files are on disk
C32_Witness ==
    \E r \in Requests :
        /\ pc[r] = "done" /\ http[r].status_code = 500
        /\ job[r].status = "failed" /\ tool[r].out.wrote /\ tool[r].returncode = <<1>>
        /\ HasFile(uploadDir, saved[r].filename)
        /\ HasFile(outputDir, job[r].output_name)
        /\ cleanup[r] = "none"

====
